---- MODULE Spec2Model ----
(***************************************************************************)
(* Model of generate.js: the command line driver (parseArgs, main,         *)
(* processFile) and the stroke-order animation built by generateGif.       *)
(*                                                                         *)
(* Stroke lengths are modelled as non-negative integers (length units) and *)
(* the per-frame progress (frame / totalFrames) * totalLength as the exact *)
(* rational  frame * totalLength / totalFrames, compared by cross          *)
(* multiplication.  The frame count Math.ceil((duration / 1000) * fps) is  *)
(* computed in IEEE-754 double precision, as JavaScript computes it.       *)
(***************************************************************************)
EXTENDS Integers, Sequences, FiniteSets, TLC

(***************************************************************************)
(* IEEE-754 double arithmetic on the operands generateGif uses.            *)
(* Exact integers wider than 31 bits are sequences of limbs in base        *)
(* 2^LimbBits, most significant limb first.  A double is                   *)
(* [m |-> limbs, e |-> exponent], value m * 2^e, with m at most 2^53.      *)
(***************************************************************************)
MantBits == 53

LimbBits == MantBits \div 4

Base == 2 ^ LimbBits

BigFromInt(n) == <<n \div (Base * Base), (n \div Base) % Base, n % Base>>

RECURSIVE BigToInt(_)
BigToInt(a) ==
    IF Len(a) = 0 THEN 0 ELSE Base * BigToInt(SubSeq(a, 1, Len(a) - 1)) + a[Len(a)]

\* a * c for 0 <= c <= Base; the result has one more limb than a
RECURSIVE MulStep(_, _, _, _, _)
MulStep(a, c, i, carry, acc) ==
    IF i = 0 THEN <<carry>> \o acc
    ELSE LET t == a[i] * c + carry
         IN  MulStep(a, c, i - 1, t \div Base, <<t % Base>> \o acc)

BigMulSmall(a, c) == MulStep(a, c, Len(a), 0, <<>>)

\* quotient and remainder of a by c, for 0 < c <= Base
RECURSIVE DivStep(_, _, _, _, _)
DivStep(a, c, i, rem, acc) ==
    IF i > Len(a) THEN [q |-> acc, r |-> rem]
    ELSE LET t == rem * Base + a[i]
         IN  DivStep(a, c, i + 1, t % c, Append(acc, t \div c))

BigDivSmall(a, c) == DivStep(a, c, 1, 0, <<>>)

\* a + 1, for a whose first limb is not Base - 1
BigInc(a) ==
    LET k == CHOOSE k \in 1..Len(a) :
                 a[k] # Base - 1 /\ \A j \in (k + 1)..Len(a) : a[j] = Base - 1
    IN  [i \in 1..Len(a) |-> IF i < k THEN a[i] ELSE IF i = k THEN a[k] + 1 ELSE 0]

BigIsZero(a) == \A i \in 1..Len(a) : a[i] = 0

\* number of binary digits of an integer n > 0, and of a big integer
BitLen(n) == CHOOSE k \in 1..31 : 2 ^ (k - 1) <= n /\ (k = 31 \/ n < 2 ^ k)

BigBitLen(a) ==
    IF BigIsZero(a) THEN 0
    ELSE LET k == CHOOSE k \in 1..Len(a) : a[k] # 0 /\ \A j \in 1..(k - 1) : a[j] = 0
         IN  BitLen(a[k]) + LimbBits * (Len(a) - k)

\* a * 2^sh
BigShl(a, sh) ==
    BigMulSmall(a, 2 ^ (sh % LimbBits)) \o [i \in 1..(sh \div LimbBits) |-> 0]

\* round-to-nearest, ties-to-even, of q + r / c for a division result dv = [q, r] by c
RoundHalfEven(dv, c) ==
    IF 2 * dv.r > c \/ (2 * dv.r = c /\ dv.q[Len(dv.q)] % 2 = 1)
    THEN BigInc(<<0>> \o dv.q) ELSE dv.q

FloatZero == [m |-> <<0>>, e |-> 0]

\* the double nearest to num / den, for integers num >= 0 and 0 < den < 2^12
FloatDiv(num, den) ==
    IF num = 0 THEN FloatZero
    ELSE LET e  == IF num >= den THEN BitLen(num \div den) - 1
                   ELSE 0 - (CHOOSE k \in 1..LimbBits :
                                 num * 2 ^ k >= den /\ num * 2 ^ (k - 1) < den)
             sh == (MantBits - 1) - e
         IN  [m |-> RoundHalfEven(BigDivSmall(BigShl(BigFromInt(num), sh), den), den),
              e |-> 0 - sh]

\* the double nearest to x * c, for a double x and an integer 0 <= c < 2^12
FloatMul(x, c) ==
    LET p == BigMulSmall(x.m, c)
        k == BigBitLen(p) - MantBits
    IN  IF BigIsZero(p) THEN FloatZero
        ELSE IF k <= 0 THEN [m |-> p, e |-> x.e]
        ELSE [m |-> RoundHalfEven(BigDivSmall(p, 2 ^ k), 2 ^ k), e |-> x.e + k]

\* Math.ceil of a non-negative double below 2^31
MathCeil(x) ==
    IF x.e >= 0 THEN BigToInt(x.m) * 2 ^ x.e
    ELSE LET whole == (0 - x.e) \div LimbBits
             n     == Len(x.m)
             hi    == IF whole >= n THEN <<>> ELSE SubSeq(x.m, 1, n - whole)
             lost  == \E i \in 1..n : i > n - whole /\ x.m[i] # 0
             dv    == BigDivSmall(hi, 2 ^ ((0 - x.e) % LimbBits))
         IN  BigToInt(dv.q) + (IF dv.r # 0 \/ lost THEN 1 ELSE 0)

(***************************************************************************)
(* Program constants.                                                      *)
(***************************************************************************)
DefaultDuration == 2000
DefaultFps      == 20
StdDuration     == 2000
StdFps          == 20
StdGifSize      == 200
CustomGifSize   == 200
MsPerSecond     == 1000
timePerStroke   == 200
baseTime        == 500
batchSize       == 20

(***************************************************************************)
(* Bounds of the model.                                                    *)
(***************************************************************************)
MaxStrokes == 3
MaxLen     == 4
MaxFps     == 2
MaxDur     == 7
MaxSide    == 1
NumFiles   == 2
MaxBatches == 2

(***************************************************************************)
(* Inputs.  The command line is a record of optional arguments: <<>> when  *)
(* the option is absent, <<v>> when it is given; a negative number stands  *)
(* for a value that starts with '-'.  --help, when given, comes first.     *)
(* A file is unreadable, or an SVG whose path elements are <<>> (no d      *)
(* attribute) or <<len>> (a d attribute of that arc length); badpath marks *)
(* path data that svgPathProperties rejects.                               *)
(***************************************************************************)
Opt(S) == {<<>>} \cup {<<v>> : v \in S}

RECURSIVE SeqsUpTo(_, _)
SeqsUpTo(S, n) ==
    IF n = 0 THEN {<<>>}
    ELSE LET shorter == SeqsUpTo(S, n - 1)
         IN  shorter \cup {Append(q, v) : q \in {t \in shorter : Len(t) = n - 1}, v \in S}

Svg(paths) == [kind |-> "svg", paths |-> paths]
Unreadable == [kind |-> "unreadable", paths |-> <<>>]
BadPath    == [kind |-> "badpath", paths |-> << <<1>> >>]

WithD(lengths) == [k \in 1..Len(lengths) |-> <<lengths[k]>>]

ArgvTiming ==
    [help : {FALSE}, format : {<<"gif">>}, width : {<<>>}, height : {<<>>},
     duration : Opt({-1, 280} \cup {500 * k : k \in 0..MaxDur}),
     fps : Opt((-1..MaxFps) \cup {25}),
     timing : Opt({"fixed", "relative", "RELATIVE", "bogus"})]

FilesTiming == {<<Svg(WithD([k \in 1..n |-> 1]))>> : n \in 0..MaxStrokes}

ArgvStrokes ==
    [help : {FALSE}, format : {<<"gif">>}, width : {<<>>}, height : {<<>>},
     duration : Opt({3000, 3500}), fps : {<<1>>, <<2>>}, timing : {<<>>}]

FilesStrokes ==
    {<<Svg(WithD(l))>> : l \in SeqsUpTo(0..MaxLen, MaxStrokes) \cup {<<10, 20, 5>>}}

ArgvConfig ==
    [help : BOOLEAN, format : Opt({"png", "gif", "GIF", "bmp"}),
     width : Opt(-1..MaxSide), height : Opt(-1..MaxSide),
     duration : Opt({1000}), fps : Opt({0, 1}), timing : Opt({"bogus"})]

FilesConfig ==
    {<<Unreadable>>, <<BadPath>>, <<Svg(<< <<>> >>)>>, <<Svg(<< <<1>> >>)>>,
     <<Svg(<< <<1>>, <<>>, <<2>> >>)>>}

ArgvBatch ==
    [help : {FALSE}, format : {<<"gif">>}, width : {<<>>}, height : {<<>>},
     duration : {<<1000>>}, fps : {<<1>>}, timing : {<<>>}]

FilesBatch == SeqsUpTo({Svg(<< <<1>> >>), Unreadable}, NumFiles)

\* file lists that need more than one batch: b full batches and one more file;
\* the files at the ends of the batches are SVGs or unreadable, the others
\* are unreadable
FilesBatches ==
    UNION {{[k \in 1..(b * batchSize + 1) |->
                IF k \in live THEN Svg(<< <<1>> >>) ELSE Unreadable] :
               live \in SUBSET {1, batchSize, batchSize + 1, b * batchSize + 1}} :
           b \in 1..MaxBatches}

Inputs ==
    (ArgvTiming \X FilesTiming) \cup (ArgvStrokes \X FilesStrokes)
        \cup (ArgvConfig \X FilesConfig) \cup (ArgvBatch \X FilesBatch)
        \cup (ArgvBatch \X FilesBatches)

\* the default mode and the custom PNG mode
ArgvModes ==
    [help : {FALSE}, format : Opt({"png"}), width : {<<>>}, height : {<<>>},
     duration : {<<>>}, fps : {<<>>}, timing : {<<>>}]

FilesOne == {<<Unreadable>>, <<Svg(<< <<1>> >>)>>}

InputsBatches ==
    (ArgvBatch \X (FilesBatch \cup FilesBatches)) \cup (ArgvModes \X FilesOne)

(***************************************************************************)
(* parseArgs                                                               *)
(***************************************************************************)
ToLowerCase(s) ==
    CASE s = "GIF" -> "gif"
      [] s = "PNG" -> "png"
      [] s = "RELATIVE" -> "relative"
      [] s = "FIXED" -> "fixed"
      [] OTHER -> s

\* JavaScript truthiness of a value that is null (<<>>) or a number
Truthy(v) == v # <<>> /\ v[1] # 0

initialConfig ==
    [help |-> FALSE, mode |-> "default", format |-> <<>>, width |-> <<>>, height |-> <<>>,
     duration |-> DefaultDuration, fps |-> DefaultFps, timing |-> "fixed"]

\* process.exit(1): a numeric option whose value starts with '-'
ParseExits(a) ==
    /\ ~a.help
    /\ \E v \in {a.width, a.height, a.duration, a.fps} : v # <<>> /\ v[1] < 0

ParsedConfig(a) ==
    IF a.help THEN [initialConfig EXCEPT !.help = TRUE]
    ELSE LET custom == \/ a.format # <<>> \/ a.width # <<>> \/ a.height # <<>>
                       \/ a.duration # <<>> \/ a.fps # <<>> \/ a.timing # <<>>
             h == IF Truthy(a.width) /\ ~Truthy(a.height) THEN a.width ELSE a.height
             w == IF Truthy(h) /\ ~Truthy(a.width) THEN h ELSE a.width
         IN  [help     |-> FALSE,
              mode     |-> IF custom THEN "custom" ELSE "default",
              format   |-> IF a.format = <<>> THEN <<>> ELSE <<ToLowerCase(a.format[1])>>,
              width    |-> w,
              height   |-> h,
              duration |-> IF a.duration = <<>> THEN DefaultDuration ELSE a.duration[1],
              fps      |-> IF a.fps = <<>> THEN DefaultFps ELSE a.fps[1],
              timing   |-> IF a.timing = <<>> THEN "fixed" ELSE ToLowerCase(a.timing[1])]

(***************************************************************************)
(* generateGif                                                             *)
(***************************************************************************)
\* lines 217-225: the d attributes (arc lengths) of the path elements that have one
RECURSIVE ExtractPaths(_)
ExtractPaths(paths) ==
    IF Len(paths) = 0 THEN <<>>
    ELSE IF paths[1] # <<>> THEN <<paths[1][1]>> \o ExtractPaths(Tail(paths))
    ELSE ExtractPaths(Tail(paths))

RECURSIVE Sum(_)
Sum(q) == IF Len(q) = 0 THEN 0 ELSE q[1] + Sum(Tail(q))

\* AnimationDuration without the base time of the relative mode
AnimationDurationNoBase(options, strokeCount) ==
    IF options.timing = "relative" THEN strokeCount * timePerStroke
    ELSE options.duration

\* lines 238-254
AnimationDuration(options, strokeCount) ==
    IF options.timing = "relative" THEN baseTime + (strokeCount * timePerStroke)
    ELSE options.duration

\* line 257
TotalFrames(animationDuration, fps) ==
    MathCeil(FloatMul(FloatDiv(animationDuration, MsPerSecond), fps))

\* lines 289-290: currentTotalProgress as the rational num / den.  Arc lengths
\* are integers here and the progress is exact; the rounding of
\* (frame / totalFrames) * totalLength in doubles is monotone in frame and is
\* not modelled.  Line 290 overrides the quotient, so frame / 0 is never used.
CurrentTotalProgress(frame, totalFrames, totalLength) ==
    IF frame >= totalFrames THEN [num |-> totalLength, den |-> 1]
    ELSE [num |-> frame * totalLength, den |-> totalFrames]

FullPath(k)       == [stroke |-> k, dash |-> <<>>]
PartPath(k, n, d) == [stroke |-> k, dash |-> <<n, d>>]

\* Walk with the partial branch neither adding to drawnLength nor leaving the loop
RECURSIVE WalkNoBreak(_, _, _, _)
WalkNoBreak(lengths, k, drawnLength, progress) ==
    IF k > Len(lengths) THEN <<>>
    ELSE IF (drawnLength + lengths[k]) * progress.den <= progress.num
         THEN <<FullPath(k)>>
              \o WalkNoBreak(lengths, k + 1, drawnLength + lengths[k], progress)
    ELSE IF drawnLength * progress.den < progress.num
         THEN <<PartPath(k, progress.num - drawnLength * progress.den, progress.den)>>
              \o WalkNoBreak(lengths, k + 1, drawnLength, progress)
    ELSE <<>>

\* Walk with the dash measured from the far end of the stroke
RECURSIVE WalkReversedDash(_, _, _, _)
WalkReversedDash(lengths, k, drawnLength, progress) ==
    IF k > Len(lengths) THEN <<>>
    ELSE IF (drawnLength + lengths[k]) * progress.den <= progress.num
         THEN <<FullPath(k)>>
              \o WalkReversedDash(lengths, k + 1, drawnLength + lengths[k], progress)
    ELSE IF drawnLength * progress.den < progress.num
         THEN <<PartPath(k, (drawnLength + lengths[k]) * progress.den - progress.num,
                         progress.den)>>
    ELSE <<>>

\* Walk with < for <= in the test of a fully drawn stroke
RECURSIVE WalkStrict(_, _, _, _)
WalkStrict(lengths, k, drawnLength, progress) ==
    IF k > Len(lengths) THEN <<>>
    ELSE IF (drawnLength + lengths[k]) * progress.den < progress.num
         THEN <<FullPath(k)>>
              \o WalkStrict(lengths, k + 1, drawnLength + lengths[k], progress)
    ELSE IF drawnLength * progress.den < progress.num
         THEN <<PartPath(k, progress.num - drawnLength * progress.den, progress.den)>>
    ELSE <<>>

\* Walk with <= for < in the test of a partially drawn stroke
RECURSIVE WalkLoose(_, _, _, _)
WalkLoose(lengths, k, drawnLength, progress) ==
    IF k > Len(lengths) THEN <<>>
    ELSE IF (drawnLength + lengths[k]) * progress.den <= progress.num
         THEN <<FullPath(k)>>
              \o WalkLoose(lengths, k + 1, drawnLength + lengths[k], progress)
    ELSE IF drawnLength * progress.den <= progress.num
         THEN <<PartPath(k, progress.num - drawnLength * progress.den, progress.den)>>
    ELSE <<>>

\* Walk without drawnLength += p.length in the branch of a fully drawn stroke
RECURSIVE WalkNoAccumulate(_, _, _, _)
WalkNoAccumulate(lengths, k, drawnLength, progress) ==
    IF k > Len(lengths) THEN <<>>
    ELSE IF (drawnLength + lengths[k]) * progress.den <= progress.num
         THEN <<FullPath(k)>> \o WalkNoAccumulate(lengths, k + 1, drawnLength, progress)
    ELSE IF drawnLength * progress.den < progress.num
         THEN <<PartPath(k, progress.num - drawnLength * progress.den, progress.den)>>
    ELSE <<>>

\* lines 309-322: the path elements of the active group, from stroke k on;
\* a dash <<n, d>> is a stroke-dasharray whose first length (partLength) is n / d
RECURSIVE Walk(_, _, _, _)
Walk(lengths, k, drawnLength, progress) ==
    IF k > Len(lengths) THEN <<>>
    ELSE IF (drawnLength + lengths[k]) * progress.den <= progress.num
         THEN <<FullPath(k)>> \o Walk(lengths, k + 1, drawnLength + lengths[k], progress)
    ELSE IF drawnLength * progress.den < progress.num
         THEN <<PartPath(k, progress.num - drawnLength * progress.den, progress.den)>>
    ELSE <<>>

gifIdle ==
    [status |-> "notcalled", options |-> [duration |-> 0, fps |-> 0, timing |-> ""],
     lengths |-> <<>>, animationDuration |-> 0, totalFrames |-> 0, frame |-> 0,
     currentTotalProgress |-> [num |-> 0, den |-> 1], drawn |-> <<>>]

encoderNone == [state |-> "none", width |-> 0, height |-> 0, frames |-> <<>>]

\* lines 288-339: loop test, then frame `frame` is built and handed to sharp,
\* or (line 344) the encoder is finished
LoopFrom(g, enc, frame) ==
    IF frame < g.totalFrames + g.options.fps
    THEN LET progress == CurrentTotalProgress(frame, g.totalFrames, Sum(g.lengths))
         IN  [pc |-> "raster", out |-> "partial", encoder |-> enc,
              gif |-> [g EXCEPT !.frame = frame, !.currentTotalProgress = progress,
                                !.drawn = Walk(g.lengths, 1, 0, progress)]]
    ELSE [pc |-> "done", out |-> "complete",
          encoder |-> [enc EXCEPT !.state = "finished"],
          gif |-> [g EXCEPT !.frame = frame, !.status = "returned"]]

\* GenerateGif without the early return of line 227
GenerateGifNoEmptyCheck(file, width, height, options) ==
    LET lengths == ExtractPaths(file.paths)
        called  == [gifIdle EXCEPT !.options = options, !.lengths = lengths]
        dur     == AnimationDuration(options, Len(lengths))
        planned == [called EXCEPT !.status = "running", !.animationDuration = dur,
                                  !.totalFrames = TotalFrames(dur, options.fps)]
    IN  IF file.kind = "badpath"
        THEN [pc |-> "done", out |-> "absent", encoder |-> encoderNone,
              gif |-> [called EXCEPT !.status = "threw"]]
        ELSE LoopFrom(planned,
                      [state |-> "started", width |-> width, height |-> height,
                       frames |-> <<>>], 0)

\* lines 212-339: generateGif from its call to its first await, return or throw
GenerateGif(file, width, height, options) ==
    LET lengths == ExtractPaths(file.paths)
        called  == [gifIdle EXCEPT !.options = options, !.lengths = lengths]
        dur     == AnimationDuration(options, Len(lengths))
        planned == [called EXCEPT !.status = "running", !.animationDuration = dur,
                                  !.totalFrames = TotalFrames(dur, options.fps)]
    IN  IF Len(lengths) = 0
        THEN [pc |-> "done", out |-> "absent", encoder |-> encoderNone,
              gif |-> [called EXCEPT !.status = "returned"]]
        ELSE IF file.kind = "badpath"
        THEN [pc |-> "done", out |-> "absent", encoder |-> encoderNone,
              gif |-> [called EXCEPT !.status = "threw"]]
        ELSE LoopFrom(planned,
                      [state |-> "started", width |-> width, height |-> height,
                       frames |-> <<>>], 0)

(***************************************************************************)
(* State                                                                   *)
(***************************************************************************)
VARIABLES
    argv,      \* process.argv, as a record of optional arguments
    files,     \* the SVG files main processes, in order
    config,    \* the configuration parseArgs returns
    mainPc,    \* where main is: parse, loop, await, done, helped, exited
    i,         \* main's batch offset
    pc,        \* per file, where processFile is: idle, an await, or done
    err,       \* per file, whether processFile caught and logged an error
    pngs,      \* per file, the PNG files written
    out,       \* per file, the GIF output file: absent, partial or complete
    encoder,   \* per file, the GIFEncoder of generateGif
    gif        \* per file, the locals of generateGif

vars == <<argv, files, config, mainPc, i, pc, err, pngs, out, encoder, gif>>

Files == 1..Len(files)

Awaits == {"png", "square", "ogbuffer", "ogfile", "raster"}

InitFrom(inputs) ==
    /\ \E input \in inputs : argv = input[1] /\ files = input[2]
    /\ config = initialConfig
    /\ mainPc = "parse"
    /\ i = 0
    /\ pc = [f \in Files |-> "idle"]
    /\ err = [f \in Files |-> FALSE]
    /\ pngs = [f \in Files |-> {}]
    /\ out = [f \in Files |-> "absent"]
    /\ encoder = [f \in Files |-> encoderNone]
    /\ gif = [f \in Files |-> gifIdle]

(***************************************************************************)
(* processFile                                                             *)
(***************************************************************************)
\* the state of file f after generateGif ran to its first await, return or throw
AfterGif(f, r) ==
    [pc |-> r.pc, err |-> err[f] \/ r.gif.status = "threw", out |-> r.out,
     encoder |-> r.encoder, gif |-> r.gif]

Unchanged(f, p, e) ==
    [pc |-> p, err |-> e, out |-> out[f], encoder |-> encoder[f], gif |-> gif[f]]

\* lines 347-429: processFile from its call to its first await or its end
ProcessFileStart(f) ==
    IF files[f].kind = "unreadable" THEN Unchanged(f, "done", TRUE)
    ELSE IF config.mode = "custom"
    THEN IF config.format = <<"png">> THEN Unchanged(f, "png", FALSE)
         ELSE IF config.format = <<"gif">>
         THEN AfterGif(f, GenerateGif(files[f],
                  IF Truthy(config.width) THEN config.width[1] ELSE CustomGifSize,
                  IF Truthy(config.height) THEN config.height[1] ELSE CustomGifSize,
                  [duration |-> config.duration, fps |-> config.fps,
                   timing |-> config.timing]))
         ELSE Unchanged(f, "done", FALSE)
    ELSE Unchanged(f, "square", FALSE)

Apply(f, st) ==
    /\ pc' = [pc EXCEPT ![f] = st.pc]
    /\ err' = [err EXCEPT ![f] = st.err]
    /\ out' = [out EXCEPT ![f] = st.out]
    /\ encoder' = [encoder EXCEPT ![f] = st.encoder]
    /\ gif' = [gif EXCEPT ![f] = st.gif]

\* line 372: generatePng of the custom mode resolved
PngDone(f) ==
    /\ pc[f] = "png"
    /\ pngs' = [pngs EXCEPT ![f] = @ \cup {"custom"}]
    /\ pc' = [pc EXCEPT ![f] = "done"]
    /\ UNCHANGED <<argv, files, config, mainPc, i, err, out, encoder, gif>>

\* line 402: the square PNG was written; lines 406-409 start the OG buffer
SquareDone(f) ==
    /\ pc[f] = "square"
    /\ pngs' = [pngs EXCEPT ![f] = @ \cup {"square"}]
    /\ pc' = [pc EXCEPT ![f] = "ogbuffer"]
    /\ UNCHANGED <<argv, files, config, mainPc, i, err, out, encoder, gif>>

\* lines 406-417: the OG buffer resolved; the composite is started
OgBufferDone(f) ==
    /\ pc[f] = "ogbuffer"
    /\ pc' = [pc EXCEPT ![f] = "ogfile"]
    /\ UNCHANGED <<argv, files, config, mainPc, i, err, pngs, out, encoder, gif>>

\* lines 412-428: the OG image was written; generateGif runs with the standard settings
OgFileDone(f) ==
    /\ pc[f] = "ogfile"
    /\ pngs' = [pngs EXCEPT ![f] = @ \cup {"og"}]
    /\ Apply(f, AfterGif(f, GenerateGif(files[f], StdGifSize, StdGifSize,
                 [duration |-> StdDuration, fps |-> StdFps, timing |-> "fixed"])))
    /\ UNCHANGED <<argv, files, config, mainPc, i>>

\* FrameRendered with every frame rasterized at once and added as it resolves
FrameRenderedAsResolved(f) ==
    /\ pc[f] = "raster"
    /\ \E k \in 0..(gif[f].totalFrames + gif[f].options.fps - 1) :
           /\ \A j \in 1..Len(encoder[f].frames) : encoder[f].frames[j] # k
           /\ Apply(f, [err |-> err[f]] @@
                       LoopFrom(gif[f], [encoder[f] EXCEPT !.frames = Append(@, k)],
                                gif[f].frame + 1))
    /\ UNCHANGED <<argv, files, config, mainPc, i, pngs>>

\* lines 336-344: sharp resolved with the frame's buffer; addFrame, then the
\* next frame is built or the encoder is finished
FrameRendered(f) ==
    /\ pc[f] = "raster"
    /\ Apply(f, [err |-> err[f]] @@
                LoopFrom(gif[f],
                         [encoder[f] EXCEPT !.frames = Append(@, gif[f].frame)],
                         gif[f].frame + 1))
    /\ UNCHANGED <<argv, files, config, mainPc, i, pngs>>

\* Rejected without the try/catch of processFile: the rejection reaches
\* Promise.all and main's catch, and main ends without completing
RejectedUncaught(f) ==
    /\ pc[f] \in Awaits
    /\ pc' = [pc EXCEPT ![f] = "done"]
    /\ err' = [err EXCEPT ![f] = TRUE]
    /\ gif' = [gif EXCEPT ![f] = IF pc[f] = "raster" THEN [@ EXCEPT !.status = "threw"] ELSE @]
    /\ mainPc' = "fatal"
    /\ UNCHANGED <<argv, files, config, i, pngs, out, encoder>>

\* lines 431-433: an awaited promise rejected; processFile logs the error and ends
Rejected(f) ==
    /\ pc[f] \in Awaits
    /\ pc' = [pc EXCEPT ![f] = "done"]
    /\ err' = [err EXCEPT ![f] = TRUE]
    /\ gif' = [gif EXCEPT ![f] = IF pc[f] = "raster" THEN [@ EXCEPT !.status = "threw"] ELSE @]
    /\ UNCHANGED <<argv, files, config, mainPc, i, pngs, out, encoder>>

(***************************************************************************)
(* main                                                                    *)
(***************************************************************************)
\* Batch as files.slice(i): no upper end
BatchNoLimit == {f \in Files : i < f}

\* line 483: files.slice(i, i + batchSize)
Batch == {f \in Files : i < f /\ f <= i + batchSize}

\* lines 438-478
ParseArgs ==
    /\ mainPc = "parse"
    /\ IF ParseExits(argv)
       THEN mainPc' = "exited" /\ UNCHANGED config
       ELSE /\ config' = ParsedConfig(argv)
            /\ mainPc' = IF config'.help THEN "helped" ELSE "loop"
    /\ UNCHANGED <<argv, files, i, pc, err, pngs, out, encoder, gif>>

\* lines 482-484: every file of the batch runs processFile up to its first await
LaunchBatch ==
    /\ mainPc = "loop"
    /\ i < Len(files)
    /\ mainPc' = "await"
    /\ pc' = [f \in Files |-> IF f \in Batch THEN ProcessFileStart(f).pc ELSE pc[f]]
    /\ err' = [f \in Files |-> IF f \in Batch THEN ProcessFileStart(f).err ELSE err[f]]
    /\ out' = [f \in Files |-> IF f \in Batch THEN ProcessFileStart(f).out ELSE out[f]]
    /\ encoder' = [f \in Files |->
                      IF f \in Batch THEN ProcessFileStart(f).encoder ELSE encoder[f]]
    /\ gif' = [f \in Files |-> IF f \in Batch THEN ProcessFileStart(f).gif ELSE gif[f]]
    /\ UNCHANGED <<argv, files, config, i, pngs>>

\* lines 484-488: Promise.all resolved
BatchDone ==
    /\ mainPc = "await"
    /\ \A f \in Batch : pc[f] = "done"
    /\ i' = i + batchSize
    /\ mainPc' = "loop"
    /\ UNCHANGED <<argv, files, config, pc, err, pngs, out, encoder, gif>>

\* line 490
AllDone ==
    /\ mainPc = "loop"
    /\ i >= Len(files)
    /\ mainPc' = "done"
    /\ UNCHANGED <<argv, files, config, i, pc, err, pngs, out, encoder, gif>>

Next ==
    \/ ParseArgs
    \/ LaunchBatch
    \/ BatchDone
    \/ AllDone
    \/ \E f \in Files : PngDone(f)
    \/ \E f \in Files : SquareDone(f)
    \/ \E f \in Files : OgBufferDone(f)
    \/ \E f \in Files : OgFileDone(f)
    \/ \E f \in Files : FrameRendered(f)
    \/ \E f \in Files : Rejected(f)

Init == InitFrom(Inputs)

Spec == Init /\ [][Next]_vars

\* The runs of the batch driver: the inputs of Inputs with several files, and
\* one file in each of the other modes.
InitBatches == InitFrom(InputsBatches)

\* an awaited promise of some file settles: it resolves or it rejects
Settle ==
    \E f \in Files :
        PngDone(f) \/ SquareDone(f) \/ OgBufferDone(f) \/ FrameRendered(f) \/ Rejected(f)

\* the guard of LaunchBatch
LaunchReady == mainPc = "loop" /\ i < Len(files)

\* Weak fairness of LaunchBatch, with ENABLED <<LaunchBatch>>_vars written as
\* its guard LaunchReady: main's loop is synchronous code that runs on.
LaunchFair == []<>(~LaunchReady) \/ []<><<LaunchBatch>>_vars

\* Every awaited promise settles and the event loop runs every continuation
\* that is ready.
FairSpec ==
    /\ InitBatches /\ [][Next]_vars
    /\ WF_vars(ParseArgs) /\ WF_vars(BatchDone) /\ WF_vars(AllDone)
    /\ WF_vars(Settle)
    /\ LaunchFair

TypeOK ==
    /\ mainPc \in {"parse", "loop", "await", "done", "helped", "exited"}
    /\ \A f \in Files : pc[f] \in {"idle", "done"} \cup Awaits

(***************************************************************************)
(* Properties of the frames generateGif builds.  A frame is built when     *)
(* processFile waits for its rasterization (pc = "raster").                *)
(***************************************************************************)
Building(f) == pc[f] = "raster"

Elems(d)   == {d[j] : j \in 1..Len(d)}
FullSet(d) == {e.stroke : e \in {x \in Elems(d) : x.dash = <<>>}}
PartSet(d) == {e.stroke : e \in {x \in Elems(d) : x.dash # <<>>}}

CumEnd(lengths, k)   == Sum(SubSeq(lengths, 1, k))
CumStart(lengths, k) == Sum(SubSeq(lengths, 1, k - 1))

\* C1: in every frame the fully drawn strokes are a prefix 1..k of the stroke
\* order, at most one stroke is partial, it is stroke k + 1, and no later
\* stroke is drawn
RevealOrder ==
    \A f \in Files : Building(f) =>
        LET d == gif[f].drawn
            n == Len(gif[f].lengths)
        IN  \E k \in 0..n :
                /\ Len(d) \in {k, k + 1}
                /\ Len(d) <= n
                /\ \A j \in 1..k : d[j] = FullPath(j)
                /\ Len(d) = k + 1 => d[k + 1].stroke = k + 1 /\ d[k + 1].dash # <<>>

RevealOrderWitness ==
    \E f \in Files :
        /\ Building(f)
        /\ Len(gif[f].lengths) = 3
        /\ Len(gif[f].drawn) = 2
        /\ gif[f].drawn[1] = FullPath(1)
        /\ gif[f].drawn[2].dash # <<>>

\* the frame generateGif builds for index fr
FrameAt(g, fr) ==
    Walk(g.lengths, 1, 0, CurrentTotalProgress(fr, g.totalFrames, Sum(g.lengths)))

\* frame b shows no less ink than frame a
NoRecede(a, b) ==
    /\ Cardinality(FullSet(b)) >= Cardinality(FullSet(a))
    /\ FullSet(a) \subseteq FullSet(b)
    /\ \A x \in Elems(a), y \in Elems(b) :
           x.dash # <<>> /\ y.dash # <<>> /\ x.stroke = y.stroke
               => y.dash[1] * x.dash[2] >= x.dash[1] * y.dash[2]

\* C2: for frame indices i < j within [0, totalFrames], frame j draws in full
\* at least the strokes frame i draws in full, and a stroke partial in both
\* is drawn at least as long in frame j
InkNeverRecedes ==
    \A f \in Files : Building(f) /\ gif[f].frame <= gif[f].totalFrames =>
        \A fr \in 0..(gif[f].frame - 1) : NoRecede(FrameAt(gif[f], fr), gif[f].drawn)

InkNeverRecedesWitness ==
    \E f \in Files :
        /\ Building(f)
        /\ gif[f].frame <= gif[f].totalFrames
        /\ \E fr \in 0..(gif[f].frame - 1) :
               /\ PartSet(FrameAt(gif[f], fr)) # {}
               /\ PartSet(FrameAt(gif[f], fr)) = PartSet(gif[f].drawn)
               /\ FrameAt(gif[f], fr) # gif[f].drawn

\* C3: every frame with index in [totalFrames, totalFrames + fps) draws every
\* stroke in full and none partially
HoldFramesComplete ==
    \A f \in Files : Building(f) /\ gif[f].frame >= gif[f].totalFrames =>
        gif[f].drawn = [k \in 1..Len(gif[f].lengths) |-> FullPath(k)]

HoldFramesCompleteWitness ==
    \E f \in Files :
        /\ Building(f)
        /\ gif[f].totalFrames > 0
        /\ gif[f].frame > gif[f].totalFrames
        /\ Len(gif[f].lengths) = 3
        /\ Len(gif[f].drawn) = 3

\* C4: when the progress equals the cumulative end of a stroke, that stroke is
\* drawn in full and no stroke is partial; a partial stroke's drawn length is
\* strictly between 0 and the stroke's length
BoundaryTieBreak ==
    \A f \in Files : Building(f) =>
        LET g == gif[f]
            p == g.currentTotalProgress
        IN  /\ \A k \in 1..Len(g.lengths) :
                   CumEnd(g.lengths, k) * p.den = p.num
                       => k \in FullSet(g.drawn) /\ PartSet(g.drawn) = {}
            /\ \A x \in Elems(g.drawn) :
                   x.dash # <<>> => /\ x.dash[2] > 0
                                    /\ 0 < x.dash[1]
                                    /\ x.dash[1] < g.lengths[x.stroke] * x.dash[2]

BoundaryTieBreakWitness ==
    \E f \in Files :
        /\ Building(f)
        /\ gif[f].lengths = <<10, 20, 5>>
        /\ gif[f].currentTotalProgress.num = 10 * gif[f].currentTotalProgress.den
        /\ gif[f].drawn = <<FullPath(1)>>

\* C5: the strokes drawn in full are exactly those whose cumulative end is at
\* most the progress p; the partial stroke is the first one with cumulative
\* start < p < cumulative end, drawn to length p - cumulative start; lengths
\* [10, 20, 5] at p = 15 give stroke 1 full, stroke 2 partial with length 5
\* (a quarter of its length), stroke 3 undrawn
StrokeWalk ==
    \A f \in Files : Building(f) =>
        LET g     == gif[f]
            p     == g.currentTotalProgress
            n     == Len(g.lengths)
            cands == {k \in 1..n : /\ CumStart(g.lengths, k) * p.den < p.num
                                   /\ p.num < CumEnd(g.lengths, k) * p.den}
        IN  /\ FullSet(g.drawn) = {k \in 1..n : CumEnd(g.lengths, k) * p.den <= p.num}
            /\ IF cands = {} THEN PartSet(g.drawn) = {}
               ELSE LET first == CHOOSE k \in cands : \A c \in cands : k <= c
                    IN  /\ PartSet(g.drawn) = {first}
                        /\ \A x \in Elems(g.drawn) :
                               x.dash # <<>> =>
                                   x.dash[1] * p.den
                                       = (p.num - CumStart(g.lengths, first) * p.den) * x.dash[2]
            /\ (g.lengths = <<10, 20, 5>> /\ p.num = 15 * p.den) =>
                   /\ Len(g.drawn) = 2
                   /\ g.drawn[1] = FullPath(1)
                   /\ g.drawn[2].stroke = 2
                   /\ g.drawn[2].dash # <<>>
                   /\ g.drawn[2].dash[1] = 5 * g.drawn[2].dash[2]
                   /\ 4 * g.drawn[2].dash[1] = 20 * g.drawn[2].dash[2]

StrokeWalkWitness ==
    \E f \in Files :
        /\ Building(f)
        /\ gif[f].lengths = <<10, 20, 5>>
        /\ gif[f].currentTotalProgress.num = 15 * gif[f].currentTotalProgress.den
        /\ Len(gif[f].drawn) = 2

(***************************************************************************)
(* Properties of a render request (one call of generateGif).               *)
(***************************************************************************)
Called(f) == gif[f].status # "notcalled"

\* ceil(a / b) in exact integer arithmetic
CeilDiv(a, b) == (a + b - 1) \div b

\* C6: the animation duration is options.duration in fixed mode and
\* 500 + 200 * strokeCount ms in relative mode, whatever options.duration is
DurationRule ==
    \A f \in Files : encoder[f].state # "none" =>
        /\ gif[f].options.timing = "fixed"
               => gif[f].animationDuration = gif[f].options.duration
        /\ gif[f].options.timing = "relative"
               => gif[f].animationDuration = 500 + 200 * Len(gif[f].lengths)

DurationRuleWitness ==
    \E f \in Files :
        /\ encoder[f].state # "none"
        /\ gif[f].options.timing = "relative"
        /\ Len(gif[f].lengths) = 3
        /\ gif[f].options.duration = 280
        /\ gif[f].animationDuration = 1100

\* C7: a finished render request with at least one stroke handed exactly
\* ceil(totalDurationMs * fps / 1000) + fps frames to the encoder
FrameCount ==
    \A f \in Files : encoder[f].state = "finished" /\ Len(gif[f].lengths) >= 1 =>
        Len(encoder[f].frames)
            = CeilDiv(gif[f].animationDuration * gif[f].options.fps, 1000)
                  + gif[f].options.fps

InvalidConfig ==
    /\ mainPc \notin {"parse", "exited", "helped"}
    /\ \/ config.fps <= 0
       \/ config.width # <<>> /\ config.width[1] <= 0
       \/ config.height # <<>> /\ config.height[1] <= 0
       \/ config.timing \notin {"fixed", "relative"}

\* C9: with an invalid configuration (fps <= 0, width or height <= 0, a timing
\* mode other than fixed or relative) no encoder is started, no output stream
\* is opened and no frame is built
InvalidConfigRejected ==
    InvalidConfig =>
        \A f \in Files : /\ encoder[f].state = "none"
                         /\ out[f] = "absent"
                         /\ gif[f].drawn = <<>>
                         /\ ~Building(f)

\* C10: a finished request left either no output artifact or a complete one
\* (every frame added, the encoder finished), and none when a frame's
\* rasterization failed
AllOrNothing ==
    \A f \in Files : pc[f] = "done" =>
        /\ out[f] \in {"absent", "complete"}
        /\ gif[f].status = "threw" => out[f] = "absent"
        /\ out[f] = "complete" =>
               /\ encoder[f].state = "finished"
               /\ encoder[f].frames
                      = [k \in 1..(gif[f].totalFrames + gif[f].options.fps) |-> k - 1]

(***************************************************************************)
(* Properties of the batch driver (main) and of the requests it runs       *)
(* together.                                                               *)
(***************************************************************************)
\* the indices 0, 1, ..., n - 1 in order
Ascending(n) == [k \in 1..n |-> k - 1]

FramesInOrder ==
    \A f \in Files :
        /\ encoder[f].frames = Ascending(Len(encoder[f].frames))
        /\ encoder[f].state = "finished"
               => Len(encoder[f].frames) = gif[f].totalFrames + gif[f].options.fps

\* one step adds at most one frame to an encoder, the frame the request built
\* last, and nothing is added to a finished encoder
OneFrameAtATime ==
    \A f \in Files :
        \/ encoder'[f].frames = encoder[f].frames
        \/ /\ encoder[f].state = "started"
           /\ Building(f)
           /\ encoder'[f].frames = Append(encoder[f].frames, gif[f].frame)
           /\ \A g \in Files \ {f} : encoder'[g] = encoder[g]

\* C11: under every interleaving of the requests of a batch, each encoder
\* receives the frames of its own request in ascending order 0, 1, 2, ...,
\* each once and one at a time, and is finished only after the last frame
FrameOrder == []FramesInOrder /\ [][OneFrameAtATime]_vars

FrameOrderWitness ==
    \E f, g \in Files :
        /\ f < g
        /\ Building(f) /\ Building(g)
        /\ encoder[f].frames = <<0>>
        /\ encoder[g].frames = <<0>>

\* the GIF of a request that ran without an error: none for an empty stroke
\* set, else complete with its encoder finished
GifWritten(f) ==
    /\ Called(f)
    /\ IF gif[f].lengths = <<>> THEN out[f] = "absent"
       ELSE out[f] = "complete" /\ encoder[f].state = "finished"

\* processFile ended for file f, and if it caught no error every output the
\* mode asks for was produced
Completed(f) ==
    /\ pc[f] = "done"
    /\ ~err[f] =>
           IF config.mode = "default" THEN pngs[f] = {"square", "og"} /\ GifWritten(f)
           ELSE IF config.format = <<"png">> THEN pngs[f] = {"custom"}
           ELSE IF config.format = <<"gif">> THEN GifWritten(f)
           ELSE pngs[f] = {} /\ ~Called(f)

InFlight == {f \in Files : pc[f] \in Awaits}

\* the batch of file f, counted from 0
BatchOf(f) == (f - 1) \div 20

BatchesInTurn ==
    /\ Cardinality(InFlight) <= 20
    /\ \A f \in InFlight : i < f /\ f <= i + 20
    /\ i % 20 = 0
    /\ \A f, g \in Files : BatchOf(f) < BatchOf(g) /\ pc[g] # "idle" => pc[f] = "done"
    /\ mainPc = "done" => \A f \in Files : pc[f] = "done"

\* a step of main that starts requests starts the files i + 1 .. i + 20, none
\* of them started before, and no other; a started file is never started
\* again
StartedOnce ==
    /\ mainPc = "loop" /\ mainPc' = "await" =>
           \A f \in Files :
               IF i < f /\ f <= i + 20 THEN pc[f] = "idle" /\ pc'[f] # "idle"
               ELSE pc'[f] = pc[f] /\ gif'[f] = gif[f] /\ err'[f] = err[f]
    /\ ~(mainPc = "loop" /\ mainPc' = "await") =>
           \A f \in Files : pc[f] = "idle" => pc'[f] = "idle"
    /\ \A f \in Files : pc[f] = "done" => pc'[f] = "done"

\* C13: at most 20 requests are in flight, all of the batch main waits for;
\* no request of a later batch starts before every request of the earlier
\* batches ended; every file is processed exactly once
BatchBound == []BatchesInTurn /\ [][StartedOnce]_vars

BatchBoundWitness ==
    \E f, g, h \in Files :
        /\ BatchOf(f) = 0 /\ BatchOf(g) = 0 /\ BatchOf(h) = 1
        /\ mainPc = "await"
        /\ out[f] = "complete"
        /\ err[g]
        /\ pc[h] \in Awaits
        /\ \A k \in Files : BatchOf(k) = 0 => pc[k] = "done"
        /\ \A k \in Files : BatchOf(k) > 1 => pc[k] = "idle"
        /\ \E k \in Files : BatchOf(k) > 1

====
